---- MODULE Spec2Model ----
(***************************************************************************)
(* The POST /api/check-fact handler of fact-checker-backend/server.js.     *)
(*                                                                         *)
(* Text (a JavaScript string) is a sequence of symbols, a symbol being an  *)
(* atom of text; String.prototype.includes is contiguous-subsequence       *)
(* search.  JSON text is a sequence of symbols too, with the punctuation   *)
(* of JSON as symbols of their own, so that JSON.parse and JSON.stringify  *)
(* are computed and not assumed.                                           *)
(*                                                                         *)
(* The handler runs in two synchronous segments around its one await: the  *)
(* segment from the arrival of the request to the upstream call, and the   *)
(* continuation that runs once the upstream promise has settled.           *)
(***************************************************************************)
EXTENDS Integers, Sequences, FiniteSets

VARIABLES NODE_ENV, quotesSource, pc, req, calls, outcome, error, sent

vars == <<NODE_ENV, quotesSource, pc, req, calls, outcome, error, sent>>

(***************************************************************************)
(* Bounds.                                                                 *)
(***************************************************************************)
MaxStrLen == 1

MaxMsgLen == 2

NumRequests == 2

Reqs == 1..NumRequests

RECURSIVE SeqsUpTo(_, _)
SeqsUpTo(S, n) ==
  IF n = 0 THEN {<<>>}
  ELSE LET shorter == SeqsUpTo(S, n - 1)
       IN  shorter \cup {Append(s, x) : s \in shorter, x \in S}

(***************************************************************************)
(* JavaScript values that can stand in a JSON request body field or in an  *)
(* error's message.                                                        *)
(***************************************************************************)
Undefined == [type |-> "undefined"]

Null == [type |-> "null"]

Bool(b) == [type |-> "boolean", val |-> b]

Str(s) == [type |-> "string", chars |-> s]

\* !v : the values that are falsy are undefined, null, false and "".
Truthy(v) ==
  CASE v.type = "undefined" -> FALSE
    [] v.type = "null"      -> FALSE
    [] v.type = "boolean"   -> v.val
    [] v.type = "string"    -> v.chars # <<>>

\* `${v}` : the text a template literal substitutes for v.
ToString(v) ==
  CASE v.type = "undefined" -> <<"undefined">>
    [] v.type = "null"      -> <<"null">>
    [] v.type = "boolean"   -> IF v.val THEN <<"true">> ELSE <<"false">>
    [] v.type = "string"    -> v.chars

\* s.includes(k)
Includes(s, k) ==
  \E i \in 0..(Len(s) - Len(k)) : SubSeq(s, i + 1, i + Len(k)) = k

\* error.message?.includes(k) : undefined, so falsy, when there is no message.
MsgIncludes(m, k) ==
  IF m.type \in {"undefined", "null"} THEN FALSE ELSE Includes(m.chars, k)

(***************************************************************************)
(* JSON.  An object is the sequence of its members in insertion order.     *)
(***************************************************************************)
Quote == "\""

Member(k, v) == [k |-> k, v |-> v]

RECURSIVE StringifyMembers(_, _)
StringifyMembers(o, first) ==
  IF o = <<>> THEN <<>>
  ELSE IF Head(o).v.type = "undefined"
       THEN StringifyMembers(Tail(o), first)
       ELSE (IF first THEN <<>> ELSE <<",">>)
            \o <<Quote>> \o Head(o).k \o <<Quote, ":", Quote>>
            \o Head(o).v.chars \o <<Quote>>
            \o StringifyMembers(Tail(o), FALSE)

\* JSON.stringify of an object whose members are strings or undefined:
\* a member whose value is undefined is left out.
JSONstringify(o) == <<"{">> \o StringifyMembers(o, TRUE) \o <<"}">>

NoParse == [ok |-> FALSE, value |-> <<>>]

\* The whitespace JSON allows between its tokens.
Ws == {" ", "\n"}

\* JSON.parse's scan of t from position i on.  `at` is where the scan stands:
\* "start" before the opening brace, "first" after it, "key" and "value"
\* inside a string literal (whose text so far is cur), "colon" after a key,
\* "open" after the colon, "after" after a value, "member" after a comma, and
\* "end" after the closing brace; key is the last key read, obj the members
\* read so far.
RECURSIVE Scan(_, _, _, _, _, _)
Scan(t, i, at, cur, key, obj) ==
  IF i > Len(t)
  THEN IF at = "end" THEN [ok |-> TRUE, value |-> obj] ELSE NoParse
  ELSE IF at = "key"
  THEN IF t[i] = Quote
       THEN Scan(t, i + 1, "colon", <<>>, cur, obj)
       ELSE Scan(t, i + 1, "key", Append(cur, t[i]), key, obj)
  ELSE IF at = "value"
  THEN IF t[i] = Quote
       THEN Scan(t, i + 1, "after", <<>>, <<>>, Append(obj, Member(key, Str(cur))))
       ELSE Scan(t, i + 1, "value", Append(cur, t[i]), key, obj)
  ELSE IF t[i] \in Ws
  THEN Scan(t, i + 1, at, cur, key, obj)
  ELSE IF at = "start" /\ t[i] = "{" THEN Scan(t, i + 1, "first", cur, key, obj)
  ELSE IF at = "first" /\ t[i] = "}" THEN Scan(t, i + 1, "end", cur, key, obj)
  ELSE IF at \in {"first", "member"} /\ t[i] = Quote
  THEN Scan(t, i + 1, "key", <<>>, key, obj)
  ELSE IF at = "colon" /\ t[i] = ":" THEN Scan(t, i + 1, "open", cur, key, obj)
  ELSE IF at = "open" /\ t[i] = Quote THEN Scan(t, i + 1, "value", <<>>, key, obj)
  ELSE IF at = "after" /\ t[i] = "," THEN Scan(t, i + 1, "member", cur, key, obj)
  ELSE IF at = "after" /\ t[i] = "}" THEN Scan(t, i + 1, "end", cur, key, obj)
  ELSE NoParse

\* JSON.parse on the texts of objects with string members; ok is FALSE where
\* JSON.parse throws a SyntaxError.
JSONparse(t) == Scan(t, 1, "start", <<>>, <<>>, <<>>)

\* The message of the SyntaxError JSON.parse throws on t.  Its wording is the
\* runtime's: a V8 that quotes the source text in the message, or one that
\* does not.
SyntaxErrorMessage(t, quotes) ==
  IF quotes
  THEN <<"Unexpected", "token">> \o t \o <<"is", "not", "valid", "JSON">>
  ELSE <<"Unexpected", "end", "of", "JSON", "input">>

(***************************************************************************)
(* The handler's literals.                                                 *)
(***************************************************************************)
UrlTemplate ==
  <<"You are a professional fact-checker. Your task is to analyze the content of the provided URL and determine its factual accuracy. Browse the content of the URL and classify the overall factual status as 'True', 'False', or 'Suspicious'. Provide a detailed, concise, and neutral explanation for your conclusion, citing evidence from the web.\n\n">>

TitleTemplate ==
  <<"You are a professional fact-checker. Your task is to analyze the provided title and determine its factual accuracy. Use your browsing and knowledge capabilities to find reliable information and classify the overall factual status as 'True', 'False', or 'Suspicious'. Provide a detailed, concise, and neutral explanation for your conclusion, citing evidence from the web.\n\n">>

UrlLabel == <<"URL", ": ">>

TitleLabel == <<"Title", ": ">>

RequiredMessage == <<"Either a URL or a title is required.">>

KeyMessage ==
  <<"Invalid or missing Gemini API key. Please check your environment configuration.">>

ModelMessage ==
  <<"Invalid model configuration. Please check the Gemini model name.">>

QuotaMessage == <<"API quota exceeded. Please try again later.">>

FallbackMessage ==
  <<"Failed to analyze the input. Please check your URL or title and try again later.">>

Response(status, body) == [status |-> status, body |-> JSONstringify(body)]

(***************************************************************************)
(* The first segment: validation, prompt selection, the upstream call.     *)
(***************************************************************************)
\* A validation that refuses only the fields that are absent.
InvalidStrict(url, title) == url = Undefined /\ title = Undefined

\* A validation that wants both fields.
InvalidEither(url, title) == ~Truthy(url) \/ ~Truthy(title)

\* if (!url && !title)
Invalid(url, title) == ~Truthy(url) /\ ~Truthy(title)

RequiredResponse == Response(400, <<Member(<<"error">>, Str(RequiredMessage))>>)

\* A prompt selection that looks at title first.
BuildPromptTitleFirst(url, title) ==
  IF Truthy(title) THEN TitleTemplate \o TitleLabel \o ToString(title)
  ELSE UrlTemplate \o UrlLabel \o ToString(url)

\* if (url) { prompt = `...URL: ${url}` } else { prompt = `...Title: ${title}` }
BuildPrompt(url, title) ==
  IF Truthy(url) THEN UrlTemplate \o UrlLabel \o ToString(url)
  ELSE TitleTemplate \o TitleLabel \o ToString(title)

\* An upstream call that is issued a second time.
GenerateContentTwice(made, prompt) == Append(Append(made, prompt), prompt)

\* model.generateContent({contents: [{role: "user", parts: [{text: prompt}]}], ...}):
\* the prompts handed to the upstream model on behalf of one request, in order.
GenerateContent(made, prompt) == Append(made, prompt)

(***************************************************************************)
(* The continuation: the success path and the catch block.                 *)
(***************************************************************************)
\* Details that are given in every mode.
DetailsAlways(env, message) == message

\* details: process.env.NODE_ENV === 'development' ? error.message : undefined
Details(env, message) == IF env = "development" THEN message ELSE Undefined

\* A success response that relays the status member alone.
SuccessResponseStatusOnly(parsed) == Response(200, SubSeq(parsed, 1, 1))

\* res.json(response): status 200, the parsed object serialised again.
SuccessResponse(parsed) == Response(200, parsed)

\* A catch block that checks the quota rule first.
CatchResponseQuotaFirst(message, env) ==
  IF MsgIncludes(message, <<"quota">>) \/ MsgIncludes(message, <<"limit">>)
  THEN Response(429, <<Member(<<"error">>, Str(QuotaMessage))>>)
  ELSE IF MsgIncludes(message, <<"API_KEY">>)
  THEN Response(500, <<Member(<<"error">>, Str(KeyMessage))>>)
  ELSE IF MsgIncludes(message, <<"model">>)
  THEN Response(500, <<Member(<<"error">>, Str(ModelMessage))>>)
  ELSE Response(500, <<Member(<<"error">>, Str(FallbackMessage)),
                       Member(<<"details">>, Details(env, message))>>)

\* The catch block, on an error whose message is `message`.
CatchResponse(message, env) ==
  IF MsgIncludes(message, <<"API_KEY">>)
  THEN Response(500, <<Member(<<"error">>, Str(KeyMessage))>>)
  ELSE IF MsgIncludes(message, <<"model">>)
  THEN Response(500, <<Member(<<"error">>, Str(ModelMessage))>>)
  ELSE IF MsgIncludes(message, <<"quota">>) \/ MsgIncludes(message, <<"limit">>)
  THEN Response(429, <<Member(<<"error">>, Str(QuotaMessage))>>)
  ELSE Response(500, <<Member(<<"error">>, Str(FallbackMessage)),
                       Member(<<"details">>, Details(env, message))>>)

(***************************************************************************)
(* State.  One record of handler state per request.  NODE_ENV is the       *)
(* process environment and quotesSource the wording of the runtime's       *)
(* SyntaxError messages: both are fixed for the life of the process.       *)
(***************************************************************************)
\* process.env.NODE_ENV; "" when it is not set.
Modes == {"development", "production", ""}

NoBody == [url |-> Undefined, title |-> Undefined]

NoOutcome == [kind |-> "pending", text |-> <<>>, message |-> Undefined]

NoError == [caught |-> FALSE, message |-> Undefined]

Init ==
  /\ NODE_ENV \in Modes
  /\ quotesSource \in BOOLEAN
  /\ pc = [r \in Reqs |-> "idle"]
  /\ req = [r \in Reqs |-> NoBody]
  /\ calls = [r \in Reqs |-> <<>>]
  /\ outcome = [r \in Reqs |-> NoOutcome]
  /\ error = [r \in Reqs |-> NoError]
  /\ sent = [r \in Reqs |-> <<>>]

\* A request with body b arrives and is refused by the validation.
Refuse(r, b) ==
  /\ pc[r] = "idle"
  /\ Invalid(b.url, b.title)
  /\ req' = [req EXCEPT ![r] = b]
  /\ sent' = [sent EXCEPT ![r] = Append(@, RequiredResponse)]
  /\ pc' = [pc EXCEPT ![r] = "done"]
  /\ UNCHANGED <<NODE_ENV, quotesSource, calls, outcome, error>>

\* A request with body b arrives, passes the validation, and the handler
\* suspends on the upstream call.
Accept(r, b) ==
  /\ pc[r] = "idle"
  /\ ~Invalid(b.url, b.title)
  /\ req' = [req EXCEPT ![r] = b]
  /\ calls' = [calls EXCEPT ![r] = GenerateContent(@, BuildPrompt(b.url, b.title))]
  /\ pc' = [pc EXCEPT ![r] = "awaiting"]
  /\ UNCHANGED <<NODE_ENV, quotesSource, outcome, error, sent>>

\* The upstream promise is fulfilled and result.response.text() is `text`.
Fulfil(r, text) ==
  /\ pc[r] = "awaiting"
  /\ outcome' = [outcome EXCEPT ![r] = [kind |-> "fulfilled", text |-> text, message |-> Undefined]]
  /\ pc' = [pc EXCEPT ![r] = "settled"]
  /\ UNCHANGED <<NODE_ENV, quotesSource, req, calls, error, sent>>

\* The upstream promise is rejected, or result.response.text() throws, with
\* an error whose message is `message`.
Fail(r, message) ==
  /\ pc[r] = "awaiting"
  /\ outcome' = [outcome EXCEPT ![r] = [kind |-> "rejected", text |-> <<>>, message |-> message]]
  /\ pc' = [pc EXCEPT ![r] = "settled"]
  /\ UNCHANGED <<NODE_ENV, quotesSource, req, calls, error, sent>>

\* The continuation after a fulfilled call: JSON.parse, then res.json, or
\* the catch block on the SyntaxError.
OnFulfilled(r) ==
  /\ pc[r] = "settled"
  /\ outcome[r].kind = "fulfilled"
  /\ LET parsed == JSONparse(outcome[r].text)
     IN  IF parsed.ok
         THEN /\ sent' = [sent EXCEPT ![r] = Append(@, SuccessResponse(parsed.value))]
              /\ error' = error
         ELSE LET m == Str(SyntaxErrorMessage(outcome[r].text, quotesSource))
              IN  /\ error' = [error EXCEPT ![r] = [caught |-> TRUE, message |-> m]]
                  /\ sent' = [sent EXCEPT ![r] = Append(@, CatchResponse(m, NODE_ENV))]
  /\ pc' = [pc EXCEPT ![r] = "done"]
  /\ UNCHANGED <<NODE_ENV, quotesSource, req, calls, outcome>>

\* A catch block that logs the error and sends nothing.
OnRejectedSilent(r) ==
  /\ pc[r] = "settled"
  /\ outcome[r].kind = "rejected"
  /\ error' = [error EXCEPT ![r] = [caught |-> TRUE, message |-> outcome[r].message]]
  /\ pc' = [pc EXCEPT ![r] = "done"]
  /\ UNCHANGED <<NODE_ENV, quotesSource, req, calls, outcome, sent>>

\* A catch block that reads the error from a slot all requests share: the
\* error of any request whose call has failed.
OnRejectedShared(r) ==
  /\ pc[r] = "settled"
  /\ outcome[r].kind = "rejected"
  /\ \E q \in Reqs :
       /\ outcome[q].kind = "rejected"
       /\ error' = [error EXCEPT ![r] = [caught |-> TRUE, message |-> outcome[q].message]]
       /\ sent' = [sent EXCEPT ![r] = Append(@, CatchResponse(outcome[q].message, NODE_ENV))]
  /\ pc' = [pc EXCEPT ![r] = "done"]
  /\ UNCHANGED <<NODE_ENV, quotesSource, req, calls, outcome>>

\* The continuation after a failed call: the catch block.
OnRejected(r) ==
  /\ pc[r] = "settled"
  /\ outcome[r].kind = "rejected"
  /\ error' = [error EXCEPT ![r] = [caught |-> TRUE, message |-> outcome[r].message]]
  /\ sent' = [sent EXCEPT ![r] = Append(@, CatchResponse(outcome[r].message, NODE_ENV))]
  /\ pc' = [pc EXCEPT ![r] = "done"]
  /\ UNCHANGED <<NODE_ENV, quotesSource, req, calls, outcome>>

(***************************************************************************)
(* Inputs.                                                                 *)
(***************************************************************************)
StrAlphabet == {"a", "b"}

Values ==
  {Undefined, Null, Bool(FALSE), Bool(TRUE)}
    \cup {Str(s) : s \in SeqsUpTo(StrAlphabet, MaxStrLen)}

Bodies == [url : Values, title : Values]

Statuses == {<<"True">>, <<"False">>, <<"Suspicious">>}

Explanations == {<<"Confirmed by two sources.">>, <<"model">>}

\* The objects of the response schema.
Verdicts ==
  { <<Member(<<"status">>, Str(s)), Member(<<"explanation">>, Str(e))>> :
      s \in Statuses, e \in Explanations }

\* The same JSON text with whitespace between its tokens.
Pretty(t) ==
  <<t[1], "\n">> \o SubSeq(t, 2, Len(t) - 1) \o <<"\n", t[Len(t)], "\n">>

ValidTexts ==
  {JSONstringify(v) : v \in Verdicts} \cup {Pretty(JSONstringify(v)) : v \in Verdicts}

\* What the upstream model may return as text: the texts of the schema's
\* objects, every truncation of them, and a text that is no JSON at all.
Texts ==
  ValidTexts
    \cup UNION {{SubSeq(JSONstringify(v), 1, n) : n \in 0..Len(JSONstringify(v))} : v \in Verdicts}
    \cup {<<"<html>", "quota", "</html>">>}

Words == {"API_KEY", "model", "quota", "limit", "s"}

\* What an upstream error may carry as its message.
Messages == {Undefined} \cup {Str(m) : m \in SeqsUpTo(Words, MaxMsgLen)}

\* One request, over all the inputs.
Next ==
  \/ \E b \in Bodies : Refuse(1, b)
  \/ \E b \in Bodies : Accept(1, b)
  \/ \E t \in Texts : Fulfil(1, t)
  \/ \E m \in Messages : Fail(1, m)
  \/ OnFulfilled(1)
  \/ OnRejected(1)

Spec == Init /\ [][Next]_vars

ConcBodies ==
  { NoBody,
    [url |-> Str(<<"a">>), title |-> Undefined],
    [url |-> Undefined, title |-> Str(<<"b">>)],
    [url |-> Str(<<"b">>), title |-> Str(<<"a">>)] }

ConcTexts ==
  LET t == JSONstringify(<<Member(<<"status">>, Str(<<"True">>)),
                           Member(<<"explanation">>, Str(<<"Confirmed by two sources.">>))>>)
  IN  {t, SubSeq(t, 1, Len(t) - 1)}

ConcMessages == {Str(<<"quota">>), Str(<<"s">>)}

\* Several requests in flight at once, their steps interleaved in any order.
ConcNext ==
  \E r \in Reqs :
    \/ \E b \in ConcBodies : Refuse(r, b)
    \/ \E b \in ConcBodies : Accept(r, b)
    \/ \E t \in ConcTexts : Fulfil(r, t)
    \/ \E m \in ConcMessages : Fail(r, m)
    \/ OnFulfilled(r)
    \/ OnRejected(r)

ConcSpec == Init /\ [][ConcNext]_vars

\* Two requests in flight at once: what it takes for the steps of one request
\* to fall between the steps of another.
LiveReqs == {1, 2}

LiveNext ==
  \E r \in LiveReqs :
    \/ \E b \in ConcBodies : Refuse(r, b)
    \/ \E b \in ConcBodies : Accept(r, b)
    \/ \E t \in ConcTexts : Fulfil(r, t)
    \/ \E m \in ConcMessages : Fail(r, m)
    \/ OnFulfilled(r)
    \/ OnRejected(r)

\* The event loop runs the continuation of every promise that has settled.
LiveSpec ==
  /\ Init
  /\ [][LiveNext]_vars
  /\ \A r \in LiveReqs : WF_vars(OnFulfilled(r)) /\ WF_vars(OnRejected(r))

(***************************************************************************)
(* The claims.  What they say of a request is read off its own record:     *)
(* its body, the prompts handed upstream for it, the outcome of its call,  *)
(* the error its catch block caught and the responses sent for it.         *)
(***************************************************************************)
\* A field of the body that is given and not empty.
NonEmpty(v) == v \notin {Undefined, Null, Bool(FALSE), Str(<<>>)}

\* The text of a field as it is written in the body.
Literal(v) == IF v.type = "string" THEN v.chars ELSE ToString(v)

\* The wire form of the body {"error": text}.
ErrorBody(text) ==
  <<"{", Quote, "error", Quote, ":", Quote>> \o text \o <<Quote, "}">>

\* The wire form of the body {"error": text, "details": details}.
ErrorDetailsBody(text, details) ==
  <<"{", Quote, "error", Quote, ":", Quote>> \o text
    \o <<Quote, ",", Quote, "details", Quote, ":", Quote>> \o details \o <<Quote, "}">>

HasDetails(resp) == Includes(resp.body, <<Quote, "details", Quote, ":">>)

HasWord(m, k) == m.type = "string" /\ Includes(m.chars, k)

Answered(r) == pc[r] = "done"

\* C1: a request whose url and title are both absent, empty or otherwise
\* falsy is answered with status 400 and the body
\* {error: "Either a URL or a title is required."}.
C1_MissingBothIs400 ==
  \A r \in Reqs :
    (pc[r] # "idle" /\ ~NonEmpty(req[r].url) /\ ~NonEmpty(req[r].title))
      => sent[r] = <<[status |-> 400, body |-> ErrorBody(RequiredMessage)]>>

C1_Witness ==
  \E r \in Reqs :
    /\ Answered(r)
    /\ req[r] = [url |-> Str(<<>>), title |-> Null]
    /\ Len(sent[r]) = 1 /\ sent[r][1].status = 400

\* C2: when the upstream call succeeds with text that is valid JSON of the
\* {status, explanation} schema, the response has status 200 and its body is
\* that object, with no member added, removed or changed.
C2_SuccessPassThrough ==
  \A r \in Reqs :
    (Answered(r) /\ outcome[r].kind = "fulfilled")
      => \A v \in Verdicts :
           outcome[r].text \in {JSONstringify(v), Pretty(JSONstringify(v))}
             => sent[r] = <<[status |-> 200,
                             body |-> <<"{", Quote, "status", Quote, ":", Quote>>
                                        \o v[1].v.chars
                                        \o <<Quote, ",", Quote, "explanation", Quote, ":", Quote>>
                                        \o v[2].v.chars \o <<Quote, "}">>]>>

C2_Witness ==
  \E r \in Reqs :
    /\ Answered(r)
    /\ outcome[r].kind = "fulfilled"
    /\ \E v \in Verdicts :
         /\ v[1].v = Str(<<"Suspicious">>)
         /\ outcome[r].text = Pretty(JSONstringify(v))
    /\ Len(sent[r]) = 1 /\ sent[r][1].status = 200

\* C3: an upstream error whose message contains "quota" is answered with
\* status 429, whatever else the message contains.
C3_QuotaIsAlways429 ==
  \A r \in Reqs :
    (Answered(r) /\ outcome[r].kind = "rejected" /\ HasWord(outcome[r].message, <<"quota">>))
      => (Len(sent[r]) = 1 /\ sent[r][1].status = 429)

\* C4: the error the catch block caught is answered by the first rule that
\* matches its message: "API_KEY" -> 500 with the key message; "model" -> 500
\* with the model message; "quota" or "limit" -> 429 with the quota message;
\* anything else, an error with no message included -> 500 with the fallback
\* message.
C4_FirstMatchingRule ==
  \A r \in Reqs :
    (Answered(r) /\ error[r].caught)
      => LET m == error[r].message
             key == HasWord(m, <<"API_KEY">>)
             model == HasWord(m, <<"model">>)
             quota == HasWord(m, <<"quota">>) \/ HasWord(m, <<"limit">>)
         IN  /\ Len(sent[r]) = 1
             /\ key => sent[r][1] = [status |-> 500, body |-> ErrorBody(KeyMessage)]
             /\ (~key /\ model)
                  => sent[r][1] = [status |-> 500, body |-> ErrorBody(ModelMessage)]
             /\ (~key /\ ~model /\ quota)
                  => sent[r][1] = [status |-> 429, body |-> ErrorBody(QuotaMessage)]
             /\ (~key /\ ~model /\ ~quota)
                  => /\ sent[r][1].status = 500
                     /\ SubSeq(sent[r][1].body, 1, 8)
                          = SubSeq(ErrorBody(FallbackMessage), 1, 8)

C4_Witness ==
  \E r \in Reqs :
    /\ Answered(r)
    /\ error[r] = [caught |-> TRUE, message |-> Str(<<"model", "quota">>)]
    /\ Len(sent[r]) = 1 /\ sent[r][1].status = 500

\* The prompt of the URL template for url, and of the Title template for title.
UrlPrompt(url) == UrlTemplate \o <<"URL", ": ">> \o Literal(url)

TitlePrompt(title) == TitleTemplate \o <<"Title", ": ">> \o Literal(title)

C6_AcceptedOnlyIfExactlyOne ==
  \A r \in Reqs :
    calls[r] # <<>> => (NonEmpty(req[r].url) # NonEmpty(req[r].title))

\* C6 as amended: a request reaches the upstream call if and only if at
\* least one of url and title is non-empty; with both absent it is refused
\* with 400, with both non-empty it is accepted.
C6_AcceptedIffAtLeastOne ==
  \A r \in Reqs :
    pc[r] # "idle"
      => /\ (calls[r] # <<>>) <=> (NonEmpty(req[r].url) \/ NonEmpty(req[r].title))
         /\ (calls[r] = <<>>) <=> (sent[r] # <<>> /\ sent[r][1].status = 400)

C6_Witness ==
  \E r \in Reqs :
    /\ NonEmpty(req[r].url) /\ NonEmpty(req[r].title)
    /\ pc[r] = "awaiting"
    /\ Len(calls[r]) = 1

\* C7: no response sent while NODE_ENV is production has a details member,
\* and in any mode a details member stands only in the fallback 500
\* response, where it is the message of the error that was caught.
C7_DetailsOnlyOutsideProduction ==
  \A r \in Reqs :
    \A i \in 1..Len(sent[r]) :
      HasDetails(sent[r][i])
        => /\ NODE_ENV # "production"
           /\ error[r].caught /\ error[r].message.type = "string"
           /\ sent[r][i] = [status |-> 500,
                            body |-> ErrorDetailsBody(FallbackMessage,
                                                      error[r].message.chars)]

C7_Witness ==
  \E r \in Reqs :
    /\ NODE_ENV = "development"
    /\ Answered(r)
    /\ outcome[r].kind = "rejected" /\ outcome[r].message = Str(<<"s", "s">>)
    /\ Len(sent[r]) = 1 /\ HasDetails(sent[r][1])

\* C8: the upstream model is called at most once for a request: once for an
\* accepted request, never for a request refused with 400, and not again
\* after the call has failed.
C8_AtMostOneUpstreamCall ==
  \A r \in Reqs :
    /\ Len(calls[r]) <= 1
    /\ (pc[r] # "idle" /\ (NonEmpty(req[r].url) \/ NonEmpty(req[r].title)))
         => Len(calls[r]) = 1
    /\ (sent[r] # <<>> /\ sent[r][1].status = 400) => calls[r] = <<>>
    /\ (Answered(r) /\ error[r].caught) => (Len(calls[r]) = 1 /\ Len(sent[r]) = 1)

C8_Witness ==
  \E r \in Reqs :
    /\ Answered(r)
    /\ outcome[r].kind = "rejected"
    /\ Len(calls[r]) = 1
    /\ Len(sent[r]) = 1 /\ sent[r][1].status = 429

\* One response, of a status the endpoint has.
OneResponse(r) ==
  /\ Len(sent[r]) <= 1
  /\ \A i \in 1..Len(sent[r]) : sent[r][i].status \in {200, 400, 429, 500}
  /\ Answered(r) => Len(sent[r]) = 1
  /\ (Answered(r) /\ outcome[r].kind = "fulfilled" /\ outcome[r].text \notin ValidTexts)
       => sent[r][1].status \in {429, 500}

\* C9: a request is never answered twice and never with a status other than
\* 200, 400, 429 and 500; once its upstream call has resolved or failed it is
\* eventually answered, exactly once; and when the call succeeded with text
\* that is not valid JSON the answer is an error of the failure classification,
\* never 200.
C9_ExactlyOneResponse ==
  /\ [](\A r \in Reqs : OneResponse(r))
  /\ \A r \in Reqs : (pc[r] = "settled") ~> (Answered(r) /\ Len(sent[r]) = 1)

C9_Witness ==
  \E r \in Reqs :
    /\ Answered(r)
    /\ outcome[r].kind = "fulfilled" /\ outcome[r].text \notin ValidTexts
    /\ Len(sent[r]) = 1 /\ sent[r][1].status = 500

\* What the handler answers to a request, from that request's own body, the
\* outcome of its own upstream call, NODE_ENV and the runtime.
OwnResponse(r) ==
  IF Invalid(req[r].url, req[r].title) THEN RequiredResponse
  ELSE IF outcome[r].kind = "rejected"
       THEN CatchResponse(outcome[r].message, NODE_ENV)
       ELSE IF JSONparse(outcome[r].text).ok
            THEN SuccessResponse(JSONparse(outcome[r].text).value)
            ELSE CatchResponse(Str(SyntaxErrorMessage(outcome[r].text, quotesSource)),
                               NODE_ENV)

Isolated(r) ==
  /\ calls[r] # <<>> => calls[r] = <<BuildPrompt(req[r].url, req[r].title)>>
  /\ Answered(r) => sent[r] = <<OwnResponse(r)>>
  /\ \A q \in Reqs :
       (Answered(r) /\ Answered(q) /\ req[q] = req[r] /\ outcome[q] = outcome[r])
         => sent[q] = sent[r]

\* C10: with several requests in flight and their upstream calls settling in
\* any order, the prompt and the response of each request are those of its
\* own body and its own upstream outcome under the process-wide NODE_ENV, two
\* requests with equal bodies and equal outcomes are answered alike, and no
\* step of any request changes the process-wide state.
C10_RequestIsolation ==
  /\ [](\A r \in Reqs : Isolated(r))
  /\ [][NODE_ENV' = NODE_ENV /\ quotesSource' = quotesSource]_vars

C10_Witness ==
  \E r, q \in Reqs :
    /\ r # q
    /\ Answered(r) /\ Answered(q)
    /\ req[r].url = Str(<<"a">>) /\ req[q].url = Str(<<"b">>)
    /\ outcome[r].kind = "fulfilled" /\ outcome[q].kind = "rejected"
    /\ sent[r][1].status = 200 /\ sent[q][1].status = 429

====
